---- MODULE Spec2Model ----
(***************************************************************************)
(* Model of the Slurm job manager: JobManager (job_manager.py), Job        *)
(* (job.py) and the control tools resize_pool.py and cancel_jobs.py.       *)
(*                                                                         *)
(* A Job object is identified by its creation index in `jobs`; the four    *)
(* collections of the manager hold such indices.  The three dicts are      *)
(* insertion-ordered sequences keyed by the job_id of the object, the      *)
(* backlog is a deque.  The backend (sbatch / squeue / sacct / scancel)    *)
(* is the environment: each call's outcome is an input of the action.      *)
(*                                                                         *)
(* Spec is the manager driven through its public operations in any order;  *)
(* SpecRun is a caller that adds jobs and then calls run, with a           *)
(* termination signal delivered between two steps of run.  SpecStep is     *)
(* SpecRun with update_status followed statement by statement, so that the *)
(* signal can arrive inside a tick.  SpecDup is add_job and update_status  *)
(* over a longer run.  SpecMatch applies match_job_pattern of              *)
(* cancel_jobs.py to bounded patterns and identifiers; SpecCancel is the   *)
(* manager beside cancel_jobs_by_job_id requests.  SpecWeb is the thread   *)
(* of run beside the web monitor thread (web_monitor.py) that takes a      *)
(* status snapshot entry by entry.                                         *)
(***************************************************************************)
EXTENDS Integers, Sequences, FiniteSets, TLC

\* ---- bounds of the model ----
NumIds == 2           \* distinct job_id strings callers use
MaxJobs == 3          \* Job objects created by add_job
MaxTime == 5          \* wall-clock readings: every operation takes one unit of time
MaxCap == 2           \* largest max_concurrent_jobs a manager is built with
MaxRetriesBound == 1  \* max_retries the manager is built with

Ids == 1..NumIds
PollOutcomes == {"RUNNING", "COMPLETED", "FAILED", "OTHER", "NONE"}

VARIABLES
    max_concurrent_jobs, max_retries,
    jobs,            \* Job objects: job_id, status, slurm_id, start_time, end_time
    active_jobs, pending_jobs, completed_jobs, failed_jobs,
    retry_counts,    \* per job_id; 0 stands for "no entry" (stored counts are >= 1)
    now,             \* time.time()
    alive,           \* the manager process exists
    pid_file,        \* /tmp/slurm_job_manager.pid names the manager
    pool_size_file,  \* content of /tmp/slurm_pool_size, -1 when absent
    calls,           \* backend calls made by the last operation, in order
    failed_runs,     \* per Job object: runs the backend reported as failed
    last_op,         \* the last operation and its result
    pc,              \* where the thread that calls run stands
    log_file,        \* the log sink: "none", "open" or "closed"
    daemon,          \* the daemon flag the manager is built with
    exc,             \* the exception propagating in run or escaped from it, "none" if none
    trace,           \* what happened from the delivery of a termination signal on
    tick,            \* where update_status stands when it is followed step by step
    horizon,         \* the clock reading at which the exploration ends
    cli,             \* a cancel_jobs.py call: its arguments and its result
    web              \* the status snapshot the web monitor thread is taking

vars == <<max_concurrent_jobs, max_retries, jobs, active_jobs, pending_jobs,
          completed_jobs, failed_jobs, retry_counts, now, alive,
          pid_file, pool_size_file, calls, failed_runs, last_op,
          pc, log_file, daemon, exc, trace, tick, horizon, cli, web>>

runvars == <<pc, log_file, daemon, exc, trace, tick, horizon, cli, web>>

\* the web monitor is not inside get_all_jobs_status
NoWeb == [pc |-> "idle"]

\* no cancel_jobs.py call has been made
NoCli == [op |-> "none"]

\* update_status is not in progress
NoTick == [phase |-> "none", todo |-> <<>>, job |-> 0]

\* ---- helpers: sequences as ordered dicts keyed by job_id ----
Range(s) == {s[i] : i \in 1..Len(s)}

Keys(d, js) == {js[d[i]].job_id : i \in 1..Len(d)}

DictSet(d, js, o) ==
    IF js[o].job_id \in Keys(d, js)
    THEN [i \in 1..Len(d) |-> IF js[d[i]].job_id = js[o].job_id THEN o ELSE d[i]]
    ELSE Append(d, o)

DictDel(d, js, id) == SelectSeq(d, LAMBDA x : js[x].job_id # id)

Objs == 1..Len(jobs)

\* backend calls of one kind made for Job object o, as positions in a call log
CallsOf(cs, kind, o) == {i \in 1..Len(cs) : cs[i][1] = kind /\ cs[i][2] = o}

\* ---- Job ----
NewJob(id) ==
    [job_id |-> id, status |-> "PENDING", slurm_id |-> 0,
     start_time |-> 0, end_time |-> 0]

\* The manager state the methods below transform; ret is the return value of
\* the last Job method, raised says an exception escaped (IndexError on empty
\* sacct output in check_status).
Manager ==
    [jobs |-> jobs, active_jobs |-> active_jobs, pending_jobs |-> pending_jobs,
     completed_jobs |-> completed_jobs, failed_jobs |-> failed_jobs,
     retry_counts |-> retry_counts,
     calls |-> <<>>, failed_runs |-> failed_runs, raised |-> FALSE, ret |-> TRUE]

\* The backend's handle for a run.  Handles are opaque and never repeat; the
\* k-th run of Job object o gets the handle (o, k), stored as k.
NewHandle(old) == old + 1

\* submit that keeps the handle of an earlier run when a job is submitted again
submit_keep(m, o, ok) ==
    IF ok
    THEN [m EXCEPT !.jobs[o].slurm_id = IF m.jobs[o].slurm_id = 0
                                         THEN NewHandle(m.jobs[o].slurm_id)
                                         ELSE m.jobs[o].slurm_id,
                   !.jobs[o].status = "RUNNING",
                   !.jobs[o].start_time = now,
                   !.calls = Append(m.calls, <<"submit", o, TRUE>>),
                   !.ret = TRUE]
    ELSE [m EXCEPT !.jobs[o].status = "FAILED",
                   !.calls = Append(m.calls, <<"submit", o, FALSE>>),
                   !.ret = FALSE]

submit(m, o, ok) ==
    IF ok
    THEN [m EXCEPT !.jobs[o].slurm_id = NewHandle(m.jobs[o].slurm_id),
                   !.jobs[o].status = "RUNNING",
                   !.jobs[o].start_time = now,
                   !.calls = Append(m.calls, <<"submit", o, TRUE>>),
                   !.ret = TRUE]
    ELSE [m EXCEPT !.jobs[o].status = "FAILED",
                   !.calls = Append(m.calls, <<"submit", o, FALSE>>),
                   !.ret = FALSE]

check_status(m, o, outcome) ==
    IF m.jobs[o].slurm_id = 0 THEN m
    ELSE LET m1 == [m EXCEPT !.calls = Append(m.calls, <<"poll", o>>)]
             endt == IF m.jobs[o].end_time = 0 THEN now ELSE m.jobs[o].end_time
         IN CASE outcome = "RUNNING" -> [m1 EXCEPT !.jobs[o].status = "RUNNING"]
              [] outcome = "COMPLETED" ->
                    [m1 EXCEPT !.jobs[o].status = "COMPLETED",
                               !.jobs[o].end_time = endt]
              [] outcome = "FAILED" ->
                    [m1 EXCEPT !.jobs[o].status = "FAILED",
                               !.jobs[o].end_time = endt,
                               !.failed_runs[o] = m.failed_runs[o] + 1]
              [] outcome = "OTHER" -> m1
              [] outcome = "NONE" -> [m1 EXCEPT !.raised = TRUE]

cancel(m, o, ok) ==
    IF m.jobs[o].slurm_id = 0 THEN [m EXCEPT !.ret = TRUE]
    ELSE IF ok
         THEN [m EXCEPT !.jobs[o].status = "CANCELLED",
                        !.jobs[o].end_time = now,
                        !.calls = Append(m.calls, <<"cancel", o, TRUE>>),
                        !.ret = TRUE]
         ELSE [m EXCEPT !.calls = Append(m.calls, <<"cancel", o, FALSE>>),
                        !.ret = FALSE]

\* ---- JobManager ----
_submit_job(m, o, ok) ==
    LET m1 == submit(m, o, ok)
    IN IF m1.ret
       THEN [m1 EXCEPT !.active_jobs = DictSet(m1.active_jobs, m1.jobs, o)]
       ELSE m1

_handle_completed_job(m, o) ==
    LET id == m.jobs[o].job_id
    IN [m EXCEPT !.completed_jobs = DictSet(m.completed_jobs, m.jobs, o),
                 !.active_jobs = DictDel(m.active_jobs, m.jobs, id),
                 !.retry_counts[id] = 0]

\* failure handler that requeues a retried job at the back (append instead of
\* appendleft)
_handle_failed_job_back(m, o) ==
    LET id == m.jobs[o].job_id
        retry_count == m.retry_counts[id]
    IN IF retry_count < max_retries
       THEN [m EXCEPT !.retry_counts[id] = retry_count + 1,
                      !.pending_jobs = Append(m.pending_jobs, o),
                      !.active_jobs = DictDel(m.active_jobs, m.jobs, id)]
       ELSE [m EXCEPT !.failed_jobs = DictSet(m.failed_jobs, m.jobs, o),
                      !.retry_counts[id] = 0,
                      !.active_jobs = DictDel(m.active_jobs, m.jobs, id)]

_handle_failed_job(m, o) ==
    LET id == m.jobs[o].job_id
        retry_count == m.retry_counts[id]
    IN IF retry_count < max_retries
       THEN [m EXCEPT !.retry_counts[id] = retry_count + 1,
                      !.pending_jobs = <<o>> \o m.pending_jobs,
                      !.active_jobs = DictDel(m.active_jobs, m.jobs, id)]
       ELSE [m EXCEPT !.failed_jobs = DictSet(m.failed_jobs, m.jobs, o),
                      !.retry_counts[id] = 0,
                      !.active_jobs = DictDel(m.active_jobs, m.jobs, id)]

RECURSIVE poll_phase(_, _, _)
poll_phase(m, snapshot, p) ==
    IF snapshot = <<>> \/ m.raised THEN m
    ELSE LET o == Head(snapshot)
             m1 == check_status(m, o, p[o])
             st == m1.jobs[o].status
             m2 == IF m1.raised THEN m1
                   ELSE IF st = "COMPLETED" THEN _handle_completed_job(m1, o)
                   ELSE IF st = "FAILED" THEN _handle_failed_job(m1, o)
                   ELSE m1
         IN poll_phase(m2, Tail(snapshot), p)

\* fill phase that admits one job more than the capacity
RECURSIVE fill_phase_over(_, _)
fill_phase_over(m, s) ==
    IF Len(m.active_jobs) <= max_concurrent_jobs /\ m.pending_jobs # <<>>
    THEN LET next_job == Head(m.pending_jobs)
             m1 == [m EXCEPT !.pending_jobs = Tail(m.pending_jobs)]
             m2 == _submit_job(m1, next_job, s[next_job])
             m3 == IF m2.ret THEN m2
                   ELSE [m2 EXCEPT !.failed_jobs = DictSet(m2.failed_jobs, m2.jobs, next_job)]
         IN fill_phase_over(m3, s)
    ELSE m

\* fill phase that takes the backlog from the back (pop instead of popleft)
RECURSIVE fill_phase_lifo(_, _)
fill_phase_lifo(m, s) ==
    IF Len(m.active_jobs) < max_concurrent_jobs /\ m.pending_jobs # <<>>
    THEN LET next_job == m.pending_jobs[Len(m.pending_jobs)]
             m1 == [m EXCEPT !.pending_jobs = SubSeq(m.pending_jobs, 1, Len(m.pending_jobs) - 1)]
             m2 == _submit_job(m1, next_job, s[next_job])
             m3 == IF m2.ret THEN m2
                   ELSE [m2 EXCEPT !.failed_jobs = DictSet(m2.failed_jobs, m2.jobs, next_job)]
         IN fill_phase_lifo(m3, s)
    ELSE m

RECURSIVE fill_phase(_, _)
fill_phase(m, s) ==
    IF Len(m.active_jobs) < max_concurrent_jobs /\ m.pending_jobs # <<>>
    THEN LET next_job == Head(m.pending_jobs)
             m1 == [m EXCEPT !.pending_jobs = Tail(m.pending_jobs)]
             m2 == _submit_job(m1, next_job, s[next_job])
             m3 == IF m2.ret THEN m2
                   ELSE [m2 EXCEPT !.failed_jobs = DictSet(m2.failed_jobs, m2.jobs, next_job)]
         IN fill_phase(m3, s)
    ELSE m

update_status_m(m, p, s) ==
    LET m1 == poll_phase(m, m.active_jobs, p)
    IN IF m1.raised THEN m1 ELSE fill_phase(m1, s)

RECURSIVE cancel_each(_, _, _)
cancel_each(m, todo, c) ==
    IF todo = <<>> THEN m
    ELSE cancel_each(cancel(m, Head(todo), c[Head(todo)]), Tail(todo), c)

cancel_all_jobs_m(m, c) ==
    [cancel_each(m, m.active_jobs, c) EXCEPT !.pending_jobs = <<>>]

\* ---- state ----
Install(m) ==
    /\ jobs' = m.jobs
    /\ active_jobs' = m.active_jobs
    /\ pending_jobs' = m.pending_jobs
    /\ completed_jobs' = m.completed_jobs
    /\ failed_jobs' = m.failed_jobs
    /\ retry_counts' = m.retry_counts
    /\ calls' = m.calls
    /\ failed_runs' = m.failed_runs

Init ==
    /\ max_concurrent_jobs \in 1..MaxCap
    /\ max_retries = MaxRetriesBound
    /\ jobs = <<>>
    /\ active_jobs = <<>>
    /\ pending_jobs = <<>>
    /\ completed_jobs = <<>>
    /\ failed_jobs = <<>>
    /\ retry_counts = [i \in Ids |-> 0]
    /\ now = 1
    /\ alive = TRUE
    /\ pid_file = TRUE
    /\ pool_size_file = -1
    /\ calls = <<>>
    /\ failed_runs = <<>>
    /\ last_op = [name |-> "init"]
    /\ pc = "idle"
    /\ log_file = "none"
    /\ daemon = FALSE
    /\ exc = "none"
    /\ trace = <<>>
    /\ tick = NoTick
    /\ horizon = MaxTime
    /\ cli = NoCli
    /\ web = NoWeb

\* ---- operations ----
\* every operation takes time: the clock reads one unit more after it
Clock == now < horizon /\ now' = now + 1

add_job(job_id, ok) ==
    /\ Clock
    /\ alive
    /\ IF job_id \in Keys(active_jobs, jobs) \/ job_id \in Keys(completed_jobs, jobs)
       THEN /\ last_op' = [name |-> "add_job", job_id |-> job_id, job |-> 0, ret |-> FALSE]
            /\ calls' = <<>>
            /\ UNCHANGED <<jobs, active_jobs, pending_jobs, completed_jobs,
                           failed_jobs, retry_counts, failed_runs>>
       ELSE /\ Len(jobs) < MaxJobs
            /\ LET o == Len(jobs) + 1
                   m0 == [Manager EXCEPT !.jobs = Append(jobs, NewJob(job_id)),
                                         !.failed_runs = Append(failed_runs, 0)]
               IN \E m1 \in {IF Len(active_jobs) < max_concurrent_jobs
                              THEN _submit_job(m0, o, ok)
                              ELSE [m0 EXCEPT !.pending_jobs = Append(m0.pending_jobs, o),
                                              !.ret = TRUE]} :
                     /\ Install(m1)
                     /\ last_op' = [name |-> "add_job", job_id |-> job_id, job |-> o, ret |-> m1.ret]
    /\ UNCHANGED <<max_concurrent_jobs, max_retries, alive, pid_file, pool_size_file>>
    /\ UNCHANGED runvars

\* the backend's answers are inputs: p is the poll result of each active job,
\* s says whether the submission of a job succeeds if this tick attempts it
update_status ==
    /\ Clock
    /\ alive
    /\ \E p \in [Range(active_jobs) -> PollOutcomes] :
          \E s \in [Range(pending_jobs) \cup {o \in Range(active_jobs) : p[o] = "FAILED"}
                        -> BOOLEAN] :
             \E m1 \in {update_status_m(Manager, p, s)} :
                /\ Install(m1)
                /\ last_op' = [name |-> "update_status", raised |-> m1.raised]
    /\ UNCHANGED <<max_concurrent_jobs, max_retries, alive, pid_file, pool_size_file>>
    /\ UNCHANGED runvars

\* c says for each active job whether its scancel call succeeds
cancel_all_jobs ==
    /\ Clock
    /\ alive
    /\ \E c \in [Range(active_jobs) -> BOOLEAN] :
          \E m1 \in {cancel_all_jobs_m(Manager, c)} : Install(m1)
    /\ last_op' = [name |-> "cancel_all_jobs"]
    /\ UNCHANGED <<max_concurrent_jobs, max_retries, alive, pid_file, pool_size_file>>
    /\ UNCHANGED runvars

\* resize_pool.py: the size is written to the pool-size file and SIGUSR1 is
\* sent to the manager; JobManager installs no handler for SIGUSR1, so the
\* signal's default disposition ends the manager process.
find_manager_pid == pid_file /\ alive

resize_pool(new_size) ==
    /\ Clock
    /\ IF ~find_manager_pid
       THEN /\ last_op' = [name |-> "resize_pool", new_size |-> new_size, ret |-> FALSE]
            /\ UNCHANGED <<pool_size_file, alive>>
       ELSE /\ pool_size_file' = new_size
            /\ alive' = FALSE
            /\ last_op' = [name |-> "resize_pool", new_size |-> new_size, ret |-> TRUE]
    /\ calls' = <<>>
    /\ UNCHANGED <<max_concurrent_jobs, max_retries, jobs, active_jobs, pending_jobs,
                   completed_jobs, failed_jobs, retry_counts,
                   pid_file, failed_runs>>
    /\ UNCHANGED runvars

\* resize_pool.py run as a script: the argument is checked, then resize_pool
\* is called
resize_pool_main(new_size) ==
    /\ Clock
    /\ IF new_size <= 0 \/ ~find_manager_pid
       THEN /\ last_op' = [name |-> "resize_pool_main", new_size |-> new_size, ret |-> FALSE]
            /\ UNCHANGED <<pool_size_file, alive>>
       ELSE /\ pool_size_file' = new_size
            /\ alive' = FALSE
            /\ last_op' = [name |-> "resize_pool_main", new_size |-> new_size, ret |-> TRUE]
    /\ calls' = <<>>
    /\ UNCHANGED <<max_concurrent_jobs, max_retries, jobs, active_jobs, pending_jobs,
                   completed_jobs, failed_jobs, retry_counts,
                   pid_file, failed_runs>>
    /\ UNCHANGED runvars

Next ==
    \/ \E job_id \in Ids, ok \in BOOLEAN : add_job(job_id, ok)
    \/ update_status
    \/ cancel_all_jobs
    \/ \E new_size \in 0..MaxCap : resize_pool(new_size)
    \/ \E new_size \in 0..MaxCap : resize_pool_main(new_size)

Spec == Init /\ [][Next]_vars

\* ---- JobManager.run and its signal handler ----
\* The manager is built with or without a log file, in daemon mode or not; the
\* caller adds its jobs and then calls run.
InitRun ==
    /\ max_concurrent_jobs \in 1..MaxCap
    /\ max_retries = MaxRetriesBound
    /\ jobs = <<>>
    /\ active_jobs = <<>>
    /\ pending_jobs = <<>>
    /\ completed_jobs = <<>>
    /\ failed_jobs = <<>>
    /\ retry_counts = [i \in Ids |-> 0]
    /\ now = 1
    /\ alive = TRUE
    /\ pid_file = TRUE
    /\ pool_size_file = -1
    /\ calls = <<>>
    /\ failed_runs = <<>>
    /\ last_op = [name |-> "init"]
    /\ pc = "idle"
    /\ log_file \in {"none", "open"}
    /\ daemon \in BOOLEAN
    /\ exc = "none"
    /\ trace = <<>>
    /\ tick = NoTick
    /\ horizon = MaxTime
    /\ cli = NoCli
    /\ web = NoWeb

\* events are recorded once a termination signal has been delivered
Event(e) == IF trace = <<>> THEN trace ELSE Append(trace, e)

\* lines 183-202: the daemon check, the signal registration and the start lines
run_start ==
    /\ pc = "idle"
    /\ pc' = IF daemon /\ log_file = "none" THEN "except" ELSE "loop"
    /\ last_op' = [name |-> "run_start"]
    /\ calls' = <<>>
    /\ UNCHANGED <<max_concurrent_jobs, max_retries, jobs, active_jobs, pending_jobs,
                   completed_jobs, failed_jobs, retry_counts, now, alive,
                   pid_file, pool_size_file, failed_runs,
                   log_file, daemon, exc, trace,
                   tick, horizon, cli, web>>

\* lines 204-206: the loop condition holds, one update_status and the sleep
run_tick ==
    /\ Clock
    /\ pc = "loop"
    /\ active_jobs # <<>> \/ pending_jobs # <<>>
    /\ \E p \in [Range(active_jobs) -> PollOutcomes] :
          \E s \in [Range(pending_jobs) \cup {o \in Range(active_jobs) : p[o] = "FAILED"}
                        -> BOOLEAN] :
             \E m1 \in {update_status_m(Manager, p, s)} :
                /\ Install(m1)
                /\ last_op' = [name |-> "run_tick", raised |-> m1.raised]
                /\ pc' = IF m1.raised THEN "except" ELSE "loop"
    /\ trace' = Event("tick")
    /\ UNCHANGED <<max_concurrent_jobs, max_retries, alive, pid_file, pool_size_file,
                   log_file, daemon, exc,
                   tick, horizon, cli, web>>

\* line 204: the loop condition fails
run_loop_exit ==
    /\ pc = "loop"
    /\ tick = NoTick
    /\ active_jobs = <<>> /\ pending_jobs = <<>>
    /\ pc' = "finally"
    /\ last_op' = [name |-> "run_loop_exit"]
    /\ calls' = <<>>
    /\ UNCHANGED <<max_concurrent_jobs, max_retries, jobs, active_jobs, pending_jobs,
                   completed_jobs, failed_jobs, retry_counts, now, alive,
                   pid_file, pool_size_file, failed_runs,
                   log_file, daemon, exc, trace,
                   tick, horizon, cli, web>>

\* lines 208-212: an exception of the try block is logged, all jobs are
\* cancelled and the exception is raised again
run_except ==
    /\ pc = "except"
    /\ \E c \in [Range(active_jobs) -> BOOLEAN] :
          \E m1 \in {cancel_all_jobs_m(Manager, c)} : Install(m1)
    /\ exc' = "Exception"
    /\ pc' = "finally"
    /\ trace' = Event("cancel_all")
    /\ last_op' = [name |-> "run_except"]
    /\ UNCHANGED <<max_concurrent_jobs, max_retries, now, alive, pid_file,
                   pool_size_file, log_file, daemon,
                   tick, horizon, cli, web>>

\* lines 214-217: the closing line is written and the log file is closed; the
\* write raises ValueError when the file is closed already
run_finally ==
    /\ pc = "finally"
    /\ CASE log_file = "none" ->
               /\ pc' = "finally_done"
               /\ UNCHANGED <<log_file, exc, trace>>
         [] log_file = "open" ->
               /\ log_file' = "closed"
               /\ pc' = "finally_done"
               /\ trace' = Event("log_close")
               /\ UNCHANGED exc
         [] log_file = "closed" ->
               /\ exc' = "ValueError"
               /\ pc' = "done"
               /\ trace' = Event("exit")
               /\ UNCHANGED log_file
    /\ last_op' = [name |-> "run_finally"]
    /\ calls' = <<>>
    /\ UNCHANGED <<max_concurrent_jobs, max_retries, jobs, active_jobs, pending_jobs,
                   completed_jobs, failed_jobs, retry_counts, now, alive,
                   pid_file, pool_size_file, failed_runs, daemon,
                   tick, horizon, cli, web>>

\* run returns, or the exception it ends with escapes to the caller
run_return ==
    /\ pc = "finally_done"
    /\ pc' = "done"
    /\ trace' = Event("exit")
    /\ last_op' = [name |-> "run_return"]
    /\ calls' = <<>>
    /\ UNCHANGED <<max_concurrent_jobs, max_retries, jobs, active_jobs, pending_jobs,
                   completed_jobs, failed_jobs, retry_counts, now, alive,
                   pid_file, pool_size_file, failed_runs,
                   log_file, daemon, exc,
                   tick, horizon, cli, web>>

\* lines 163-177, run in the thread of run between two of its steps: SIGTERM,
\* SIGINT, SIGHUP or SIGQUIT is delivered once the handlers are registered.
\* The first _log raises ValueError when the log file is closed already;
\* otherwise all jobs are cancelled, the log file is closed and sys.exit
\* raises SystemExit into the interrupted code of run.
_signal_handler ==
    /\ pc \in {"loop", "except", "finally", "finally_done"}
    /\ trace = <<>>
    /\ IF log_file = "closed"
       THEN /\ exc' = "ValueError"
            /\ pc' = "done"
            /\ trace' = <<"signal", "exit">>
            /\ calls' = <<>>
            /\ UNCHANGED <<jobs, active_jobs, pending_jobs, completed_jobs,
                           failed_jobs, retry_counts, failed_runs, log_file>>
       ELSE /\ \E c \in [Range(active_jobs) -> BOOLEAN] :
                  \E m1 \in {cancel_all_jobs_m(Manager, c)} : Install(m1)
            /\ log_file' = IF log_file = "open" THEN "closed" ELSE log_file
            /\ exc' = "SystemExit"
            /\ pc' = IF pc \in {"loop", "except"} THEN "finally" ELSE "done"
            /\ trace' = <<"signal", "cancel_all">>
                         \o (IF log_file = "open" THEN <<"log_close">> ELSE <<>>)
                         \o (IF pc \in {"loop", "except"} THEN <<>> ELSE <<"exit">>)
    /\ last_op' = [name |-> "_signal_handler"]
    /\ UNCHANGED <<max_concurrent_jobs, max_retries, now, alive, pid_file,
                   pool_size_file, daemon,
                   tick, horizon, cli, web>>

\* the caller adds its jobs before it calls run
NextRun ==
    \/ \E job_id \in Ids, ok \in BOOLEAN : pc = "idle" /\ add_job(job_id, ok)
    \/ run_start
    \/ run_tick
    \/ run_loop_exit
    \/ run_except
    \/ run_finally
    \/ run_return
    \/ _signal_handler

SpecRun == InitRun /\ [][NextRun]_vars

\* ---- update_status inside run, step by step ----
\* A signal handler runs between two bytecodes of the interrupted thread, so
\* it can interrupt update_status between the statements of its poll loop.
\* calls accumulates over the steps of one tick.

\* lines 137-140: the tick starts and takes the list of the active jobs
tick_begin ==
    /\ Clock
    /\ pc = "loop"
    /\ tick = NoTick
    /\ active_jobs # <<>> \/ pending_jobs # <<>>
    /\ tick' = [phase |-> "poll", todo |-> active_jobs, job |-> 0]
    /\ calls' = <<>>
    /\ last_op' = [name |-> "tick_begin"]
    /\ UNCHANGED <<max_concurrent_jobs, max_retries, jobs, active_jobs, pending_jobs,
                   completed_jobs, failed_jobs, retry_counts, alive,
                   pid_file, pool_size_file, failed_runs,
                   pc, log_file, daemon, exc, trace, horizon, cli, web>>

\* line 141: status = job.check_status() for the next job of the list
tick_check ==
    /\ pc = "loop"
    /\ tick.phase = "poll"
    /\ tick.todo # <<>>
    /\ \E outcome \in PollOutcomes :
          \E m1 \in {check_status([Manager EXCEPT !.calls = calls],
                                  Head(tick.todo), outcome)} :
             /\ Install(m1)
             /\ pc' = IF m1.raised THEN "except" ELSE pc
             /\ tick' = IF m1.raised THEN NoTick
                        ELSE [phase |-> "polled", todo |-> Tail(tick.todo),
                              job |-> Head(tick.todo)]
    /\ last_op' = [name |-> "tick_check"]
    /\ UNCHANGED <<max_concurrent_jobs, max_retries, now, alive, pid_file,
                   pool_size_file, log_file, daemon, exc, trace, horizon, cli, web>>

\* lines 143-146: the polled job is handed to its handler
tick_handle ==
    /\ pc = "loop"
    /\ tick.phase = "polled"
    /\ LET o == tick.job
           m == [Manager EXCEPT !.calls = calls]
       IN \E m1 \in {IF jobs[o].status = "COMPLETED" THEN _handle_completed_job(m, o)
                      ELSE IF jobs[o].status = "FAILED" THEN _handle_failed_job(m, o)
                      ELSE m} :
             Install(m1)
    /\ tick' = [phase |-> "poll", todo |-> tick.todo, job |-> 0]
    /\ last_op' = [name |-> "tick_handle"]
    /\ UNCHANGED <<max_concurrent_jobs, max_retries, now, alive, pid_file,
                   pool_size_file, pc, log_file, daemon, exc, trace, horizon, cli, web>>

\* lines 151-159 and 206: the fill phase, the report and the sleep
tick_fill ==
    /\ pc = "loop"
    /\ tick.phase = "poll"
    /\ tick.todo = <<>>
    /\ \E s \in [Range(pending_jobs) -> BOOLEAN] :
          \E m1 \in {fill_phase([Manager EXCEPT !.calls = calls], s)} :
             Install(m1)
    /\ tick' = NoTick
    /\ last_op' = [name |-> "tick_fill"]
    /\ UNCHANGED <<max_concurrent_jobs, max_retries, now, alive, pid_file,
                   pool_size_file, pc, log_file, daemon, exc, trace, horizon, cli, web>>

NextStep ==
    \/ \E job_id \in Ids, ok \in BOOLEAN : pc = "idle" /\ add_job(job_id, ok)
    \/ run_start
    \/ tick_begin
    \/ tick_check
    \/ tick_handle
    \/ tick_fill
    \/ run_loop_exit
    \/ run_except
    \/ run_finally
    \/ run_return
    \/ _signal_handler

SpecStep == InitRun /\ [][NextStep]_vars

\* ======================= properties =======================
IdOf(o) == jobs[o].job_id

Tracked(id) ==
    \/ id \in Keys(pending_jobs, jobs)
    \/ id \in Keys(active_jobs, jobs)
    \/ id \in Keys(completed_jobs, jobs)
    \/ id \in Keys(failed_jobs, jobs)

\* number of places a job_id is tracked in: backlog positions plus dict entries
TrackCount(id) ==
    Cardinality({i \in 1..Len(pending_jobs) : IdOf(pending_jobs[i]) = id})
    + (IF id \in Keys(active_jobs, jobs) THEN 1 ELSE 0)
    + (IF id \in Keys(completed_jobs, jobs) THEN 1 ELSE 0)
    + (IF id \in Keys(failed_jobs, jobs) THEN 1 ELSE 0)

\* Job object o had a run reported as failed by the poll of this step
FailedRunOf(o) == failed_runs'[o] = failed_runs[o] + 1

TerminalStatus(st) == st \in {"COMPLETED", "FAILED", "CANCELLED"}

\* C1: no job is lost: every job accepted by add_job (every Job object it
\* created) has its job_id in the backlog, the active set, the completed set
\* or the failed set, in every reachable state.
C1_NoJobLost == \A o \in Objs : Tracked(IdOf(o))

\* C2: no job is double-tracked: every job_id is in at most one of the four
\* collections and at most once in the backlog.
C2_NoDoubleTracked == \A id \in Ids : TrackCount(id) <= 1

\* C3: at the end of every update_status tick the active set is no larger
\* than the pool capacity.
C3_ActiveWithinCapacity ==
    last_op.name = "update_status" => Len(active_jobs) <= max_concurrent_jobs

\* a tick that submitted from the backlog ended with the pool exactly full and
\* a job still waiting
C3_Witness ==
    /\ last_op.name = "update_status"
    /\ Len(active_jobs) = max_concurrent_jobs
    /\ pending_jobs # <<>>
    /\ \E i \in 1..Len(calls) : calls[i][1] = "submit" /\ calls[i][3]

\* C4: the retry count never exceeds max_retries; a failed run with retry
\* count < max_retries requeues the job with the count incremented by one, a
\* failed run with retry count = max_retries moves it to failed_jobs; a job
\* enters failed_jobs through a runtime failure exactly on its
\* (max_retries + 1)-th failed run.
C4_RetryBudget ==
    [][/\ \A id \in Ids : retry_counts'[id] <= max_retries
       /\ \A o \in Objs : FailedRunOf(o) =>
             IF retry_counts[IdOf(o)] < max_retries
             THEN /\ retry_counts'[IdOf(o)] = retry_counts[IdOf(o)] + 1
                  /\ \/ o \in Range(pending_jobs')
                     \/ CallsOf(calls', "submit", o) # {}
             ELSE /\ o \in Range(failed_jobs')
                  /\ failed_runs'[o] = max_retries + 1]_vars

\* C5: a job whose backend submission fails, from add_job or from the fill
\* phase, is in failed_jobs with state FAILED, is not in active_jobs, and the
\* failed submission leaves its retry count as it was.
C5_SubmitFailureIsRecorded ==
    [][\A i \in 1..Len(calls') :
          (calls'[i][1] = "submit" /\ ~calls'[i][3]) =>
             LET o == calls'[i][2]
             IN /\ o \in Range(failed_jobs')
                /\ jobs'[o].status = "FAILED"
                /\ o \notin Range(active_jobs')
                /\ (\A x \in Objs : ~FailedRunOf(x)) =>
                       retry_counts'[jobs'[o].job_id] = retry_counts[jobs'[o].job_id]]_vars

\* C6: after cancel_all_jobs every job of the active set has received exactly
\* one backend cancel call and is CANCELLED, also when that call failed.
C6_CancelAllCancelsActive ==
    last_op.name = "cancel_all_jobs" =>
        \A o \in Range(active_jobs) :
            /\ Cardinality(CallsOf(calls, "cancel", o)) = 1
            /\ jobs[o].status = "CANCELLED"

\* C7: cancel_all_jobs empties the backlog, sets every backlog job's state to
\* CANCELLED and makes no backend call for any of them.
C7_CancelAllClearsBacklog ==
    [][last_op'.name = "cancel_all_jobs" =>
          /\ pending_jobs' = <<>>
          /\ \A o \in Range(pending_jobs) :
                /\ jobs'[o].status = "CANCELLED"
                /\ \A i \in 1..Len(calls') : calls'[i][2] # o]_vars

\* C8: a job that is COMPLETED, CANCELLED, or FAILED and not requeued keeps
\* its state and stays in its terminal collection in every later step.
C8_TerminalIsImmutable ==
    [][\A o \in Objs :
          (TerminalStatus(jobs[o].status) /\ o \notin Range(pending_jobs)) =>
             /\ jobs'[o].status = jobs[o].status
             /\ o \in Range(completed_jobs) => o \in Range(completed_jobs')
             /\ o \in Range(failed_jobs) => o \in Range(failed_jobs')]_vars

\* C9: cancelling a job that is already in a terminal state makes no backend
\* call and leaves the job's state and end_time unchanged.
C9_CancelTerminalIsNoOp ==
    [][last_op'.name = "cancel_all_jobs" =>
          \A o \in Range(active_jobs) :
             TerminalStatus(jobs[o].status) =>
                /\ CallsOf(calls', "cancel", o) = {}
                /\ jobs'[o] = jobs[o]]_vars

\* C10: backlog FIFO: of two jobs that never failed and both wait in the
\* backlog, the one added later is submitted only when the one added earlier is
\* submitted in the same step before it.
C10_BacklogFIFO ==
    [][\A a, b \in Range(pending_jobs) :
          (/\ a < b
           /\ failed_runs[a] = 0 /\ failed_runs[b] = 0
           /\ CallsOf(calls', "submit", b) # {}) =>
             \E i \in CallsOf(calls', "submit", a) :
                \A j \in CallsOf(calls', "submit", b) : i < j]_vars

\* a tick submitted a never-failed backlog job while a later-added
\* never-failed job is still waiting
C10_Witness ==
    /\ last_op.name = "update_status"
    /\ \E a \in Objs : \E b \in Range(pending_jobs) :
          /\ a < b
          /\ failed_runs[a] = 0 /\ failed_runs[b] = 0
          /\ CallsOf(calls, "submit", a) # {}
          /\ CallsOf(calls, "poll", a) = {}

LeftActive(a) ==
    /\ a \in Range(active_jobs)
    /\ a \notin Range(active_jobs') \/ FailedRunOf(a)

C12_Admission ==
    [][/\ (last_op'.name = "add_job" /\ last_op'.job # 0) =>
             IF Len(active_jobs) < max_concurrent_jobs
             THEN /\ CallsOf(calls', "submit", last_op'.job) # {}
                  /\ pending_jobs' = pending_jobs
             ELSE /\ calls' = <<>>
                  /\ pending_jobs' = Append(pending_jobs, last_op'.job)
                  /\ jobs'[last_op'.job].slurm_id = 0
       /\ \A b \in Range(pending_jobs) :
             CallsOf(calls', "submit", b) # {} =>
                /\ last_op'.name = "update_status"
                /\ \E a \in Objs : LeftActive(a)]_vars

\* the step is a resize request that reached the manager
ResizeRequested ==
    /\ last_op'.name \in {"resize_pool", "resize_pool_main"}
    /\ last_op'.ret

\* C13: a resize request never changes which jobs are in the active set:
\* every job that is ACTIVE when the resize is requested is still ACTIVE and
\* still tracked by the running manager afterwards, and no backend cancel is
\* issued by the resize.
C13_ResizeKeepsActive ==
    [][ResizeRequested =>
          /\ alive'
          /\ active_jobs' = active_jobs
          /\ \A o \in Range(active_jobs) :
                /\ jobs'[o].status = jobs[o].status
                /\ CallsOf(calls', "cancel", o) = {}]_vars

\* C14: a positive size staged by resize_pool finds the control loop still
\* running, and after the next tick the pool capacity is that size.
C14_ResizeApplied ==
    pool_size_file >= 1 =>
        /\ alive
        /\ last_op.name = "update_status" => max_concurrent_jobs = pool_size_file

\* C15: a resize request with a non-positive size is rejected by every entry
\* point: no value is staged, the manager is not signalled and nothing of the
\* manager changes.
C15_NonPositiveRejected ==
    [][(/\ last_op'.name \in {"resize_pool", "resize_pool_main"}
        /\ last_op'.new_size <= 0) =>
          /\ ~last_op'.ret
          /\ pool_size_file' = pool_size_file
          /\ alive' = alive
          /\ UNCHANGED <<max_concurrent_jobs, jobs, active_jobs, pending_jobs,
                         completed_jobs, failed_jobs, retry_counts>>]_vars

\* whether the poll of this step reported Job object o as finished
Determined(o) == jobs'[o].status \in {"COMPLETED", "FAILED"} \/ FailedRunOf(o)

\* C16: when a status poll cannot determine a job's state the job stays in
\* active_jobs in state ACTIVE with its retry count unchanged, and the tick
\* goes on with the other jobs: every job that is ACTIVE (submitted and
\* RUNNING) at the start of a tick is polled in that tick, and unless the
\* poll reports it finished it is still in active_jobs, RUNNING, with the
\* same retry count.
C16_UndeterminedPollKeepsJob ==
    [][last_op'.name = "update_status" =>
          \A o \in Range(active_jobs) :
             (jobs[o].status = "RUNNING" /\ jobs[o].slurm_id # 0) =>
                /\ CallsOf(calls', "poll", o) # {}
                /\ ~Determined(o) =>
                      /\ o \in Range(active_jobs')
                      /\ jobs'[o].status = "RUNNING"
                      /\ retry_counts'[IdOf(o)] = retry_counts[IdOf(o)]]_vars

\* C17: per-job errors are contained: no error of one job's submit, poll or
\* cancel makes update_status abort.
C17_ErrorsContained ==
    last_op.name = "update_status" => ~last_op.raised

\* every job add_job took in is in completed_jobs or in failed_jobs
AllFinished ==
    \A o \in Objs :
        IdOf(o) \in Keys(completed_jobs, jobs) \cup Keys(failed_jobs, jobs)

\* C18: run returns normally exactly when the active set and the backlog are
\* both empty at a loop check: it leaves the loop at such a check and at no
\* other, it never returns while a job is active or queued, and when it has
\* returned every job accepted by add_job is in completed_jobs or failed_jobs.
C18_RunReturns ==
    [][/\ (pc = "loop" /\ pc' = "finally" /\ exc' = "none") =>
             active_jobs = <<>> /\ pending_jobs = <<>>
       /\ (pc = "loop" /\ active_jobs = <<>> /\ pending_jobs = <<>> /\ trace' = <<>>) =>
             pc' = "finally" /\ exc' = "none"
       /\ (pc' = "done" /\ exc' = "none") =>
             /\ active_jobs' = <<>> /\ pending_jobs' = <<>>
             /\ AllFinished']_vars

IsPrefix(s, t) == Len(s) <= Len(t) /\ SubSeq(t, 1, Len(s)) = s

\* C19: from a termination signal delivered while run executes:
\* cancel_all_jobs runs, then the log sink (if there is one) is closed, then
\* the process ends, in this order and each once; no tick runs after the
\* signal, and the process does not end with the sink still open.
C19_OrderedShutdown ==
    trace # <<>> =>
        /\ \/ IsPrefix(trace, <<"signal", "cancel_all", "log_close", "exit">>)
           \/ IsPrefix(trace, <<"signal", "cancel_all", "exit">>)
        /\ Len(trace) >= 2
        /\ trace[Len(trace)] = "exit" => log_file # "open"

\* C20: the control loop is the only writer of the job collections: the
\* signal handler, which runs in the trigger context of a shutdown request,
\* leaves all four collections as they are.
C20_HandlerWritesNothing ==
    [][last_op'.name = "_signal_handler" =>
          UNCHANGED <<active_jobs, pending_jobs, completed_jobs, failed_jobs>>]_vars

\* C21: cancellation commutes with the poll phase: when the cancel-all of a
\* shutdown request runs, a job whose poll in the current tick returned
\* COMPLETED or FAILED keeps that state and gets no backend cancel call, also
\* when the request arrives between the poll result and the job's move out
\* of active_jobs.
C21_PolledTerminalWins ==
    [][last_op'.name = "_signal_handler" =>
          \A o \in Objs :
             (/\ jobs[o].status \in {"COMPLETED", "FAILED"}
              /\ CallsOf(calls, "poll", o) # {}) =>
                /\ CallsOf(calls', "cancel", o) = {}
                /\ jobs'[o].status = jobs[o].status]_vars

\* successful backend submissions of Job object o in this step
Submitted(o) == {i \in CallsOf(calls', "submit", o) : calls'[i][3]}

\* the handle of Job object o before this step (none for an object the step creates)
HandleBefore(o) == IF o \in Objs THEN jobs[o].slurm_id ELSE 0

\* C22 as stated: once a job has a backend handle the handle is never
\* overwritten, also when the job is requeued after a failure and submitted
\* again.
C22_HandleSetOnce ==
    [][\A o \in Objs :
          jobs[o].slurm_id # 0 => jobs'[o].slurm_id = jobs[o].slurm_id]_vars

\* C22 amended: the handle is null until the first successful submission and
\* changes exactly by a successful submission, each of which stores the fresh
\* handle of the new run; a failed submission and every other operation leave
\* it as it was.
C22_HandlePerSubmission ==
    [][\A o \in 1..Len(jobs') :
          /\ Cardinality(Submitted(o)) <= 1
          /\ jobs'[o].slurm_id = IF Submitted(o) # {}
                                 THEN NewHandle(HandleBefore(o))
                                 ELSE HandleBefore(o)]_vars

\* a job that failed was submitted again and has the handle of its second run
C22_Witness ==
    \E o \in Objs :
        /\ jobs[o].slurm_id = NewHandle(NewHandle(0))
        /\ failed_runs[o] > 0
        /\ jobs[o].status = "RUNNING"

\* C23: start_time is set on every entry to ACTIVE and end_time on every
\* entry to a terminal state, to the time of that entry, so that every job in
\* completed_jobs or failed_jobs that ran has end_time >= start_time, retried
\* jobs included.
C23_Timestamps ==
    [][/\ \A o \in 1..Len(jobs') :
             Submitted(o) # {} => jobs'[o].start_time = now
       /\ \A o \in Objs :
             (/\ jobs'[o].status # jobs[o].status
              /\ TerminalStatus(jobs'[o].status)
              /\ jobs'[o].slurm_id # 0) => jobs'[o].end_time = now
       /\ \A o \in Range(completed_jobs') \cup Range(failed_jobs') :
             jobs'[o].slurm_id # 0 => jobs'[o].end_time >= jobs'[o].start_time]_vars

\* get_all_jobs_status: a dict keyed by job_id, filled from active_jobs,
\* completed_jobs and failed_jobs with the status of the Job object and then
\* from the backlog with "QUEUED"; a later entry replaces an earlier one of the
\* same job_id.  "ABSENT" stands for a missing key.
RECURSIVE status_entries(_, _, _)
status_entries(status_info, d, queued) ==
    IF d = <<>> THEN status_info
    ELSE status_entries(
             [status_info EXCEPT ![jobs[Head(d)].job_id] =
                  IF queued THEN "QUEUED" ELSE jobs[Head(d)].status],
             Tail(d), queued)

get_all_jobs_status ==
    status_entries(
        status_entries(
            status_entries(
                status_entries([id \in Ids |-> "ABSENT"], active_jobs, FALSE),
                completed_jobs, FALSE),
            failed_jobs, FALSE),
        pending_jobs, TRUE)

\* C24: every status snapshot has exactly one entry for each job of the four
\* collections, and the reported state agrees with the collection: RUNNING
\* iff in active_jobs, QUEUED iff in the backlog, COMPLETED iff in
\* completed_jobs, FAILED iff in failed_jobs, and CANCELLED only from a
\* terminal collection, never from the active set.
C24_SnapshotAgrees ==
    \A id \in Ids :
        /\ TrackCount(id) = IF get_all_jobs_status[id] = "ABSENT" THEN 0 ELSE 1
        /\ get_all_jobs_status[id] = "RUNNING" <=> id \in Keys(active_jobs, jobs)
        /\ get_all_jobs_status[id] = "QUEUED" <=> id \in Keys(pending_jobs, jobs)
        /\ get_all_jobs_status[id] = "COMPLETED" <=> id \in Keys(completed_jobs, jobs)
        /\ get_all_jobs_status[id] = "FAILED" <=> id \in Keys(failed_jobs, jobs)
        /\ get_all_jobs_status[id] = "CANCELLED" =>
              /\ id \notin Keys(active_jobs, jobs)
              /\ id \in Keys(completed_jobs, jobs) \cup Keys(failed_jobs, jobs)

\* ---- cancel_jobs.py ----
\* Strings are sequences of characters over a small alphabet: an ordinary
\* character, the wildcard, two characters that are special in regular
\* expressions, and the newline.
MaxLen == 2
MaxIdCount == 2
Chars == {"a", ".", "*", "\\", "\n"}
Strs == UNION {[1..n -> Chars] : n \in 0..MaxLen}
IdLists == UNION {[1..n -> Strs] : n \in 0..MaxIdCount}

\* re.escape puts a backslash before every character that is special
SpecialChars == {".", "*", "\\", "\n"}

RECURSIVE re_escape(_)
re_escape(s) ==
    IF s = <<>> THEN <<>>
    ELSE (IF Head(s) \in SpecialChars THEN <<"\\", Head(s)>> ELSE <<Head(s)>>)
         \o re_escape(Tail(s))

\* str.replace('\\*', '.*'): left to right, non-overlapping
RECURSIVE str_replace(_)
str_replace(s) ==
    IF s = <<>> THEN <<>>
    ELSE IF Len(s) >= 2 /\ s[1] = "\\" /\ s[2] = "*"
         THEN <<".", "*">> \o str_replace(SubSeq(s, 3, Len(s)))
         ELSE <<Head(s)>> \o str_replace(Tail(s))

regex_pattern(pattern) ==
    IF "*" \in Range(pattern) THEN str_replace(re_escape(pattern))
    ELSE re_escape(pattern)

\* re.compile("^" + r + "$").match(s): a backslash makes the next character
\* literal, ".*" is any run of characters other than newline, and "$" matches
\* at the end of s and also just before a newline that ends s.
RECURSIVE re_match(_, _)
re_match(r, s) ==
    IF r = <<>> THEN s = <<>> \/ s = <<"\n">>
    ELSE IF r[1] = "\\"
         THEN /\ Len(r) >= 2
              /\ s # <<>>
              /\ s[1] = r[2]
              /\ re_match(SubSeq(r, 3, Len(r)), Tail(s))
    ELSE IF r[1] = "." /\ Len(r) >= 2 /\ r[2] = "*"
         THEN \/ re_match(SubSeq(r, 3, Len(r)), s)
              \/ /\ s # <<>>
                 /\ s[1] # "\n"
                 /\ re_match(r, Tail(s))
    ELSE /\ s # <<>>
         /\ s[1] = r[1]
         /\ re_match(Tail(r), Tail(s))

match_job_pattern(pattern, job_ids) ==
    {job_ids[i] : i \in {k \in 1..Len(job_ids) :
                            re_match(regex_pattern(pattern), job_ids[k])}}

InitMatch ==
    /\ max_concurrent_jobs = 1
    /\ max_retries = MaxRetriesBound
    /\ jobs = <<>>
    /\ active_jobs = <<>>
    /\ pending_jobs = <<>>
    /\ completed_jobs = <<>>
    /\ failed_jobs = <<>>
    /\ retry_counts = [i \in Ids |-> 0]
    /\ now = 1
    /\ alive = TRUE
    /\ pid_file = TRUE
    /\ pool_size_file = -1
    /\ calls = <<>>
    /\ failed_runs = <<>>
    /\ last_op = [name |-> "init"]
    /\ pc = "idle"
    /\ log_file = "none"
    /\ daemon = FALSE
    /\ exc = "none"
    /\ trace = <<>>
    /\ tick = NoTick
    /\ horizon = MaxTime
    /\ cli \in {[op |-> "args", pattern |-> p, job_ids |-> l, matched |-> {}] :
                   p \in Strs, l \in IdLists}
    /\ web = NoWeb

call_match_job_pattern ==
    /\ cli.op = "args"
    /\ cli' = [cli EXCEPT !.op = "match_job_pattern",
                          !.matched = match_job_pattern(cli.pattern, cli.job_ids)]
    /\ UNCHANGED <<max_concurrent_jobs, max_retries, jobs, active_jobs,
                   pending_jobs, completed_jobs, failed_jobs, retry_counts, now,
                   alive, pid_file, pool_size_file, calls, failed_runs, last_op,
                   pc, log_file, daemon, exc, trace, tick, horizon, web>>

NextMatch == call_match_job_pattern

SpecMatch == InitMatch /\ [][NextMatch]_vars

\* s equals pattern when each '*' of pattern is replaced by some string
RECURSIVE Wildcard(_, _)
Wildcard(pattern, s) ==
    IF pattern = <<>> THEN s = <<>>
    ELSE IF Head(pattern) = "*"
         THEN \/ Wildcard(Tail(pattern), s)
              \/ s # <<>> /\ Wildcard(pattern, Tail(s))
    ELSE /\ s # <<>>
         /\ Head(s) = Head(pattern)
         /\ Wildcard(Tail(pattern), Tail(s))

\* C25: match_job_pattern(pattern, ids) returns exactly the identifiers of ids
\* that equal the pattern in full when each '*' is replaced by an arbitrary,
\* possibly empty, string; every other character is literal and a pattern
\* without '*' matches only the identical identifier.
C25_MatchIsWildcard ==
    cli.op = "match_job_pattern" =>
        /\ cli.matched = {s \in Range(cli.job_ids) : Wildcard(cli.pattern, s)}
        /\ "*" \notin Range(cli.pattern) =>
              cli.matched = Range(cli.job_ids) \cap {cli.pattern}

\* The identifier string under which the job with key id is registered
JobName(id) == [k \in 1..id |-> "a"]

\* the patterns a cancel request is made of
CancelPatterns == {<<"a">>, <<"a", "a">>, <<"a", "*">>, <<"*">>}
PatternLists == UNION {[1..n -> CancelPatterns] : n \in 0..MaxIdCount}

get_jobs_by_pattern(patterns, manager) ==
    LET all_jobs == [i \in 1..Len(manager.active_jobs) |->
                        JobName(manager.jobs[manager.active_jobs[i]].job_id)]
    IN UNION {match_job_pattern(patterns[i], all_jobs) : i \in 1..Len(patterns)}

\* cancel_jobs_by_job_id constructs a JobManager of its own and looks the
\* patterns up in the active_jobs of that new object.
cancel_jobs_by_job_id(job_patterns) ==
    /\ Clock
    /\ LET manager == [Manager EXCEPT !.jobs = <<>>, !.active_jobs = <<>>,
                                      !.pending_jobs = <<>>,
                                      !.completed_jobs = <<>>,
                                      !.failed_jobs = <<>>]
           matched_jobs == IF job_patterns = <<>> THEN {}
                           ELSE get_jobs_by_pattern(job_patterns, manager)
           todo == SelectSeq(manager.active_jobs,
                             LAMBDA o : JobName(manager.jobs[o].job_id) \in matched_jobs)
       IN \E c \in [Range(todo) -> BOOLEAN] :
             /\ calls' = cancel_each(manager, todo, c).calls
             /\ cli' = [op |-> "cancel_jobs_by_job_id",
                        job_patterns |-> job_patterns,
                        ret |-> \A o \in Range(todo) : c[o]]
    /\ last_op' = [name |-> "cancel_jobs_by_job_id"]
    /\ UNCHANGED <<max_concurrent_jobs, max_retries, jobs, active_jobs,
                   pending_jobs, completed_jobs, failed_jobs, retry_counts,
                   alive, pid_file, pool_size_file, failed_runs,
                   pc, log_file, daemon, exc, trace, tick, horizon, web>>

NextCancel ==
    \/ \E job_id \in Ids, ok \in BOOLEAN : add_job(job_id, ok)
    \/ update_status
    \/ \E job_patterns \in PatternLists : cancel_jobs_by_job_id(job_patterns)

SpecCancel == Init /\ [][NextCancel]_vars

\* the active jobs of the running manager whose identifier matches a pattern
MatchedActive(job_patterns) ==
    {o \in Range(active_jobs) :
        \E i \in 1..Len(job_patterns) :
           Wildcard(job_patterns[i], JobName(jobs[o].job_id))}

\* C26: a cancel-by-identifier request issues a backend cancel for every job
\* that is active in the running manager and whose identifier matches at least
\* one of the patterns, and for no other job.
C26_CancelByPattern ==
    [][last_op'.name = "cancel_jobs_by_job_id" =>
          \A o \in Objs :
             CallsOf(calls', "cancel", o) # {} <=> o \in MatchedActive(cli'.job_patterns)]_vars

\* C27: in one update_status tick every job that is in active_jobs at the
\* start of the tick is polled exactly once, every poll comes before every
\* submission of the fill phase, and a job submitted or resubmitted in the fill
\* phase is not polled in that tick after its submission.
C27_PollOncePerTick ==
    [][last_op'.name = "update_status" =>
          /\ \A o \in Range(active_jobs) :
                Cardinality(CallsOf(calls', "poll", o)) = 1
          /\ \A o \in 1..Len(jobs') \ Range(active_jobs) :
                CallsOf(calls', "poll", o) = {}
          /\ \A i, j \in 1..Len(calls') :
                (calls'[i][1] = "poll" /\ calls'[j][1] = "submit") => i < j]_vars

\* C28: after every add_job call and at the end of every update_status tick a
\* non-empty backlog means that no capacity slot is free.
C28_WorkConserving ==
    [][last_op'.name \in {"add_job", "update_status"} =>
          (pending_jobs' # <<>> => Len(active_jobs') >= max_concurrent_jobs)]_vars

\* a longer exploration for sequences of add_job calls and ticks
MaxTimeLong == 6

InitDup ==
    /\ max_concurrent_jobs \in 1..MaxCap
    /\ max_retries = MaxRetriesBound
    /\ jobs = <<>>
    /\ active_jobs = <<>>
    /\ pending_jobs = <<>>
    /\ completed_jobs = <<>>
    /\ failed_jobs = <<>>
    /\ retry_counts = [i \in Ids |-> 0]
    /\ now = 1
    /\ alive = TRUE
    /\ pid_file = TRUE
    /\ pool_size_file = -1
    /\ calls = <<>>
    /\ failed_runs = <<>>
    /\ last_op = [name |-> "init"]
    /\ pc = "idle"
    /\ log_file = "none"
    /\ daemon = FALSE
    /\ exc = "none"
    /\ trace = <<>>
    /\ tick = NoTick
    /\ horizon = MaxTimeLong
    /\ cli = NoCli
    /\ web = NoWeb

NextDup ==
    \/ \E job_id \in Ids, ok \in BOOLEAN : add_job(job_id, ok)
    \/ update_status

SpecDup == InitDup /\ [][NextDup]_vars

\* the backend runs that were submitted and whose end the manager has not
\* observed: the Job object has a handle and still reads RUNNING
Unobserved == {o \in Objs : jobs[o].slurm_id # 0 /\ jobs[o].status = "RUNNING"}

\* C29: the backend runs that were submitted and whose end was not observed
\* are never more than max_concurrent_jobs, and each of them is tracked in
\* active_jobs: none is lost by being overwritten there.
C29_SubmittedAreTracked ==
    /\ Cardinality(Unobserved) <= max_concurrent_jobs
    /\ Unobserved \subseteq Range(active_jobs)

\* the collections and Job objects are what they were before the step
SameManagerState ==
    /\ jobs' = jobs
    /\ active_jobs' = active_jobs
    /\ pending_jobs' = pending_jobs
    /\ completed_jobs' = completed_jobs
    /\ failed_jobs' = failed_jobs
    /\ retry_counts' = retry_counts

\* C30: a job of active_jobs whose backend run has ended, here one cancelled
\* by cancel_all_jobs, eventually leaves active_jobs under fair ticking.  A
\* backend run that has ended answers every later poll alike, so a tick that
\* polls such a job and leaves it active with the whole manager state as it
\* was repeats for ever; the claim excludes every such tick.
C30_EndedJobLeaves ==
    [][(last_op'.name = "update_status" /\ ~last_op'.raised) =>
          \A o \in Range(active_jobs) :
             (/\ jobs[o].status = "CANCELLED"
              /\ CallsOf(calls', "poll", o) # {}) =>
                ~(o \in Range(active_jobs') /\ SameManagerState)]_vars

\* C32: on every exit path of run (the loop ends, an exception in the loop, a
\* termination signal handled while run executes) the log sink is closed at
\* most once and nothing is written to it once it is closed: a closed sink
\* stays closed and no step of run or of the handler attempts a write on it,
\* which the file object answers with ValueError.
C32_NoWriteAfterClose ==
    [][log_file = "closed" =>
          /\ log_file' = "closed"
          /\ exc' = "ValueError" => exc = "ValueError"]_vars

\* ---- the web monitor thread beside the thread of run ----
\* status_update_thread calls _get_status_data once a second, which calls
\* get_all_jobs_status on the manager that the other thread is running.  The
\* interpreter switches threads at the calls of a loop body, so the other
\* thread runs between two entries of the snapshot's loops.
MaxSnapshots == 1

\* lines 151-152: the loop condition of the fill phase holds and the next job
\* is taken from the backlog; it is in no collection until it is submitted
fill_pop ==
    /\ pc = "loop"
    /\ tick.phase = "poll"
    /\ tick.todo = <<>>
    /\ Len(active_jobs) < max_concurrent_jobs /\ pending_jobs # <<>>
    /\ tick' = [phase |-> "fill", todo |-> <<>>, job |-> Head(pending_jobs)]
    /\ pending_jobs' = Tail(pending_jobs)
    /\ last_op' = [name |-> "fill_pop"]
    /\ UNCHANGED <<max_concurrent_jobs, max_retries, jobs, active_jobs,
                   completed_jobs, failed_jobs, retry_counts, now, alive,
                   pid_file, pool_size_file, calls, failed_runs,
                   pc, log_file, daemon, exc, trace, horizon, cli, web>>

\* lines 153-154: the job taken from the backlog is submitted and stored in
\* active_jobs, or in failed_jobs when the submission fails
fill_submit ==
    /\ pc = "loop"
    /\ tick.phase = "fill"
    /\ \E ok \in BOOLEAN :
          \E m2 \in {_submit_job([Manager EXCEPT !.calls = calls], tick.job, ok)} :
             \E m3 \in {IF m2.ret THEN m2
                        ELSE [m2 EXCEPT !.failed_jobs =
                                  DictSet(m2.failed_jobs, m2.jobs, tick.job)]} :
                Install(m3)
    /\ tick' = [phase |-> "poll", todo |-> <<>>, job |-> 0]
    /\ last_op' = [name |-> "fill_submit"]
    /\ UNCHANGED <<max_concurrent_jobs, max_retries, now, alive, pid_file,
                   pool_size_file, pc, log_file, daemon, exc, trace, horizon,
                   cli, web>>

\* lines 151 and 156-159, 206: the loop condition of the fill phase fails, the
\* report and the sleep
fill_end ==
    /\ pc = "loop"
    /\ tick.phase = "poll"
    /\ tick.todo = <<>>
    /\ ~(Len(active_jobs) < max_concurrent_jobs /\ pending_jobs # <<>>)
    /\ tick' = NoTick
    /\ last_op' = [name |-> "fill_end"]
    /\ UNCHANGED <<max_concurrent_jobs, max_retries, jobs, active_jobs,
                   pending_jobs, completed_jobs, failed_jobs, retry_counts, now,
                   alive, pid_file, pool_size_file, calls, failed_runs,
                   pc, log_file, daemon, exc, trace, horizon, cli, web>>

\* the collections in the order get_all_jobs_status goes through them
Collections == <<active_jobs, completed_jobs, failed_jobs, pending_jobs>>

\* what an iterator can tell of a collection: its entries and the run each
\* Job object is in (an entry removed and stored again is a new entry)
View(d) == [i \in 1..Len(d) |-> <<d[i], jobs[d[i]].slurm_id>>]

\* lines 250-258 and 261-269: the entry written for a job of collection k
status_entry(status_info, o, k) ==
    [status_info EXCEPT ![jobs[o].job_id] =
         IF k = 4 THEN "QUEUED" ELSE jobs[o].status]

\* the loop over collection k yields the entry after position pos
yield(w, k, pos) ==
    [w EXCEPT !.pc = "iter", !.coll = k, !.pos = pos + 1,
              !.view = View(Collections[k]),
              !.status_info = status_entry(w.status_info, Collections[k][pos + 1], k)]

\* the loops over the collections from the k-th on start: empty collections
\* are passed, the first entry found is written, after the last collection
\* the snapshot is returned
RECURSIVE start_loops(_, _)
start_loops(w, k) ==
    IF k > 4 THEN [w EXCEPT !.pc = "done"]
    ELSE IF Collections[k] = <<>> THEN start_loops(w, k + 1)
    ELSE yield(w, k, 0)

\* the next step of the loop the snapshot is in.  A deque iterator raises
\* RuntimeError when the deque was mutated; a dict iterator raises it when the
\* size of the dict has changed; when the dict was changed and has its old
\* size, what the iterator does depends on the layout of the dict: it raises,
\* ends, or yields one of the entries.
loop_steps(w) ==
    LET k == w.coll
        d == Collections[k]
        raise == [w EXCEPT !.pc = "error"]
        go_on == IF w.pos < Len(d) THEN yield(w, k, w.pos) ELSE start_loops(w, k + 1)
    IN IF View(d) = w.view THEN {go_on}
       ELSE IF k = 4 \/ Len(d) # Len(w.view) THEN {raise}
       ELSE {raise, start_loops(w, k + 1)}
            \cup {yield(w, k, i - 1) : i \in 1..Len(d)}

\* the job the fill phase holds between the backlog and its submission
InHand == IF tick.phase = "fill" THEN {jobs[tick.job].job_id} ELSE {}

\* _get_status_data calls get_all_jobs_status: up to the first entry
web_begin ==
    /\ web.pc \in {"idle", "done"}
    /\ web.n < MaxSnapshots
    /\ web' = start_loops([pc |-> "iter", n |-> web.n + 1, coll |-> 1, pos |-> 0,
                           view |-> <<>>,
                           status_info |-> [id \in Ids |-> "ABSENT"],
                           known |-> Keys(active_jobs, jobs)
                                     \cup Keys(completed_jobs, jobs)
                                     \cup Keys(failed_jobs, jobs)
                                     \cup Keys(pending_jobs, jobs) \cup InHand],
                          1)
    /\ UNCHANGED <<max_concurrent_jobs, max_retries, jobs, active_jobs,
                   pending_jobs, completed_jobs, failed_jobs, retry_counts, now,
                   alive, pid_file, pool_size_file, calls, failed_runs, last_op,
                   pc, log_file, daemon, exc, trace, tick, horizon, cli>>

web_next ==
    /\ web.pc = "iter"
    /\ web' \in loop_steps(web)
    /\ UNCHANGED <<max_concurrent_jobs, max_retries, jobs, active_jobs,
                   pending_jobs, completed_jobs, failed_jobs, retry_counts, now,
                   alive, pid_file, pool_size_file, calls, failed_runs, last_op,
                   pc, log_file, daemon, exc, trace, tick, horizon, cli>>

InitWeb ==
    /\ max_concurrent_jobs \in 1..MaxCap
    /\ max_retries = MaxRetriesBound
    /\ jobs = <<>>
    /\ active_jobs = <<>>
    /\ pending_jobs = <<>>
    /\ completed_jobs = <<>>
    /\ failed_jobs = <<>>
    /\ retry_counts = [i \in Ids |-> 0]
    /\ now = 1
    /\ alive = TRUE
    /\ pid_file = TRUE
    /\ pool_size_file = -1
    /\ calls = <<>>
    /\ failed_runs = <<>>
    /\ last_op = [name |-> "init"]
    /\ pc = "idle"
    /\ log_file = "none"
    /\ daemon = FALSE
    /\ exc = "none"
    /\ trace = <<>>
    /\ tick = NoTick
    /\ horizon = MaxTime
    /\ cli = NoCli
    /\ web = [pc |-> "idle", n |-> 0]

NextWeb ==
    \/ \E job_id \in Ids, ok \in BOOLEAN : pc = "idle" /\ add_job(job_id, ok)
    \/ run_start
    \/ tick_begin
    \/ tick_check
    \/ tick_handle
    \/ fill_pop
    \/ fill_submit
    \/ fill_end
    \/ run_loop_exit
    \/ web_begin
    \/ web_next

SpecWeb == InitWeb /\ [][NextWeb]_vars

\* C31: a status snapshot taken by the web monitor thread while the other
\* thread is in add_job or in an update_status tick completes without error
\* and has an entry for every job that the manager tracked when the snapshot
\* began, also for a job that was taken from the backlog and is not yet stored
\* in active_jobs or failed_jobs.
C31_SnapshotCompletes ==
    /\ web.pc # "error"
    /\ web.pc = "done" => \A id \in web.known : web.status_info[id] # "ABSENT"

====
